---------------------------- MODULE Spec2Model ----------------------------
(***************************************************************************)
(* A model of PDF_MPN_VALIDATION_ONLY.py: the corpus builder GetPDFText,   *)
(* the part matcher PN_Validation_New with its worker SET_DESC, and the    *)
(* two upload flows of main that drive them.                               *)
(*                                                                         *)
(* Strings are sequences of one-character strings.  A table cell is a     *)
(* record [t, v]: t = "str" with the characters v, t = "nan" for an empty  *)
(* spreadsheet cell (pandas reads it as the float NaN), t = "none" for    *)
(* Python's None.  An assignment data[col][index] = v writes the cell of   *)
(* the table itself, as pandas does without copy-on-write.                *)
(***************************************************************************)
EXTENDS Integers, Sequences, FiniteSets, TLC

(***************************************************************************)
(* Characters.                                                             *)
(***************************************************************************)

\* The characters the model's strings are made of, in code point order.
Alphabet ==
  << "\n", " ", "-", ".",
     "0", "1", "2", "3", "4", "5", "6", "7", "8", "9",
     "A", "B", "C", "D", "E", "F", "G", "H", "I", "J", "K", "L", "M",
     "N", "O", "P", "Q", "R", "S", "T", "U", "V", "W", "X", "Y", "Z",
     "_",
     "a", "b", "c", "d", "e", "f", "g", "h", "i", "j", "k", "l", "m",
     "n", "o", "p", "q", "r", "s", "t", "u", "v", "w", "x", "y", "z",
     "|" >>

CharSet == {Alphabet[i] : i \in 1..Len(Alphabet)}

\* f, tabulated once.
Tabulated(f) == f @@ << >>

\* The rank of a character in code point order.
Ord ==
  Tabulated([c \in CharSet |-> CHOOSE i \in 1..Len(Alphabet) : Alphabet[i] = c])

UpperFirst == Ord["A"]
UpperLast == Ord["Z"]
LowerFirst == Ord["a"]
LowerLast == Ord["z"]
DigitFirst == Ord["0"]
DigitLast == Ord["9"]

\* re.IGNORECASE compares characters by their lower-case form.
Lower ==
  Tabulated([c \in CharSet |->
               IF Ord[c] >= UpperFirst /\ Ord[c] <= UpperLast
                 THEN Alphabet[Ord[c] - UpperFirst + LowerFirst]
                 ELSE c])

\* The regex class \w: letters, digits and the underscore.
IsWord ==
  Tabulated([c \in CharSet |->
               \/ (Ord[c] >= UpperFirst /\ Ord[c] <= UpperLast)
               \/ (Ord[c] >= LowerFirst /\ Ord[c] <= LowerLast)
               \/ (Ord[c] >= DigitFirst /\ Ord[c] <= DigitLast)
               \/ c = "_"])

\* What str.strip() removes.
IsSpace == Tabulated([c \in CharSet |-> c \in {" ", "\n"}])

\* The class [\x00-\x1F\x7F] of clean_string.
IsControl == Tabulated([c \in CharSet |-> c = "\n"])

(***************************************************************************)
(* Cells.                                                                  *)
(***************************************************************************)

None == [t |-> "none", v |-> << >>]
NaN == [t |-> "nan", v |-> << >>]
Str(s) == [t |-> "str", v |-> s]
IsStr(cell) == cell.t = "str"

Min(S) == CHOOSE x \in S : \A y \in S : x <= y
Max(S) == CHOOSE x \in S : \A y \in S : x >= y

\* Lexicographic order of strings by code point (Python's str comparison).
StrLess(a, b) ==
  LET n == IF Len(a) < Len(b) THEN Len(a) ELSE Len(b)
      diff == {i \in 1..n : a[i] # b[i]}
  IN  IF diff = {} THEN Len(a) < Len(b)
      ELSE Ord[a[Min(diff)]] < Ord[b[Min(diff)]]

RECURSIVE Filter(_, _)
Filter(s, keep) ==
  IF s = << >> THEN << >>
  ELSE (IF keep[Head(s)] THEN <<Head(s)>> ELSE << >>) \o Filter(Tail(s), keep)

\* clean_string: control characters removed from a string, anything else as is.
clean_string(cell) ==
  IF IsStr(cell)
    THEN Str(Filter(cell.v, [c \in CharSet |-> ~IsControl[c]]))
    ELSE cell


(***************************************************************************)
(* The regular expressions of SET_DESC.                                    *)
(***************************************************************************)

\* re.escape(part) makes the pattern match part literally; under
\* re.IGNORECASE it matches values at position p when the characters agree
\* up to case.
MatchesAt(part, values, p) ==
  /\ p >= 1
  /\ p + Len(part) - 1 <= Len(values)
  /\ \A d \in 1..Len(part) : Lower[values[p + d - 1]] = Lower[part[d]]

\* re.search(re.escape(part), values, flags=re.IGNORECASE): the start of the
\* leftmost occurrence, 0 when there is none.
re_search(part, values) ==
  LET hits == {p \in 1..(Len(values) + 1) : MatchesAt(part, values, p)}
  IN  IF hits = {} THEN 0 ELSE Min(hits)

\* exact.group(0): the matched text, in the document's own case.
group0(part, values, p) == SubSeq(values, p, p + Len(part) - 1)

WordAt(values, p) == p >= 1 /\ p <= Len(values) /\ IsWord[values[p]]

\* \b at the gap before position p (p = Len + 1: the end of the text).
Boundary(values, p) == WordAt(values, p - 1) # WordAt(values, p)

\* How many characters \w* can take from position p on.
RECURSIVE WordRun(_, _)
WordRun(values, p) ==
  IF WordAt(values, p) THEN 1 + WordRun(values, p + 1) ELSE 0

\* A match of \b\w*<part>\w*\b starting at s: the position of its last
\* character (s - 1 for an empty match), or -1.  Both \w* are greedy, the
\* first one backtracks only as far as needed.
MatchEnds(values, after) ==
  {after + j - 1 : j \in {j \in 0..WordRun(values, after) :
                            Boundary(values, after + j)}}

Backtrack(part, values, s, ks) ==
  IF ks = {} THEN -1 ELSE Max(MatchEnds(values, s + Max(ks) + Len(part)))

MatchEnd(part, values, s) ==
  IF ~Boundary(values, s) THEN -1
  ELSE Backtrack(part, values, s,
                 {k \in 0..WordRun(values, s) :
                    /\ MatchesAt(part, values, s + k)
                    /\ MatchEnds(values, s + k + Len(part)) # {}})

\* re.findall from position s on: the leftmost match, then the matches behind
\* it (one position further after an empty one); matches do not overlap.
RECURSIVE findall_from(_, _, _)
findall_next(part, values, s, e) ==
  <<SubSeq(values, s, e)>>
    \o findall_from(part, values, IF e >= s THEN e + 1 ELSE s + 1)

findall_leftmost(part, values, starts) ==
  IF starts = {} THEN << >>
  ELSE findall_next(part, values, Min(starts),
                    MatchEnd(part, values, Min(starts)))

findall_from(part, values, s) ==
  findall_leftmost(part, values,
                   {t \in s..(Len(values) + 1) : MatchEnd(part, values, t) # -1})

re_findall(part, values) == findall_from(part, values, 1)

\* str.strip()
strip(s) ==
  LET keep == {i \in 1..Len(s) : ~IsSpace[s[i]]}
  IN  IF keep = {} THEN << >> ELSE SubSeq(s, Min(keep), Max(keep))

\* re.split('[ \n]', values): the pieces between separators, empty ones kept.
re_split(values) ==
  LET seps == {i \in 1..Len(values) : values[i] \in {" ", "\n"}}
      cuts == seps \cup {0, Len(values) + 1}
  IN  {SubSeq(values, c + 1, Min({d \in cuts : d > c}) - 1) :
         c \in cuts \ {Len(values) + 1}}

\* Another reading of the similars: the tokens between spaces and newlines
\* that contain the part.
semi_regex_tokens(part, values) ==
  {tok \in re_split(values) :
     \E p \in 1..(Len(tok) + 1) : MatchesAt(part, tok, p)}

\* semi_regex: the set comprehension of line 68.
semi_regex(part, values) ==
  LET found == re_findall(part, values)
  IN  {strip(found[i]) : i \in 1..Len(found)}

\* The order in which a set of strings is iterated.  It depends on the
\* interpreter's string hashing, which is fixed when the process starts.
RECURSIVE SetOrder(_, _)
SetOrder(S, seed) ==
  IF S = {} THEN << >>
  ELSE LET first == IF seed = 0
                      THEN CHOOSE x \in S : \A y \in S \ {x} : StrLess(x, y)
                      ELSE CHOOSE x \in S : \A y \in S \ {x} : StrLess(y, x)
       IN  <<first>> \o SetOrder(S \ {first}, seed)

\* sep.join(items)
RECURSIVE join(_, _)
join(sep, items) ==
  IF items = << >> THEN << >>
  ELSE IF Len(items) = 1 THEN Head(items)
  ELSE Head(items) \o sep \o join(sep, Tail(items))

(***************************************************************************)
(* difflib.                                                                *)
(***************************************************************************)

\* The length of the common run of a from i and b from j, within the ranges.
RECURSIVE RunLen(_, _, _, _, _, _)
RunLen(a, b, i, j, ahi, bhi) ==
  IF i <= ahi /\ j <= bhi /\ a[i] = b[j]
    THEN 1 + RunLen(a, b, i + 1, j + 1, ahi, bhi)
    ELSE 0

\* SequenceMatcher.find_longest_match over a[alo..ahi], b[blo..bhi]: the
\* longest common block, the one earliest in a, then earliest in b.
Earlier(m, o) ==
  \/ m[3] > o[3]
  \/ m[3] = o[3] /\ m[1] < o[1]
  \/ m[3] = o[3] /\ m[1] = o[1] /\ m[2] <= o[2]

Earliest(blocks) == CHOOSE m \in blocks : \A o \in blocks : Earlier(m, o)

find_longest_match(a, b, alo, ahi, blo, bhi) ==
  Earliest({<<i, j, RunLen(a, b, i, j, ahi, bhi)>> :
              <<i, j>> \in (alo..ahi) \X (blo..bhi)})

\* The total size of SequenceMatcher.get_matching_blocks: the longest block,
\* then the same to its left and to its right.
RECURSIVE matches(_, _, _, _, _, _)
matches_around(a, b, alo, ahi, blo, bhi, m) ==
  IF m[3] = 0 THEN 0
  ELSE m[3] + matches(a, b, alo, m[1] - 1, blo, m[2] - 1)
            + matches(a, b, m[1] + m[3], ahi, m[2] + m[3], bhi)

matches(a, b, alo, ahi, blo, bhi) ==
  IF alo > ahi \/ blo > bhi THEN 0
  ELSE matches_around(a, b, alo, ahi, blo, bhi,
                      find_longest_match(a, b, alo, ahi, blo, bhi))

\* cutoff=0.65 as the fraction CutoffNum / CutoffDen.
CutoffNum == 65
CutoffDen == 100

\* 2.0 * m / length >= cutoff (_calculate_ratio gives 1.0 for length 0).
AtLeastCutoff(m, length) ==
  IF length = 0 THEN TRUE ELSE 2 * m * CutoffDen >= CutoffNum * length

\* real_quick_ratio, quick_ratio, ratio of SequenceMatcher(a = x, b = word):
\* each as the number of matches it counts.
real_quick_matches(x, word) == IF Len(x) < Len(word) THEN Len(x) ELSE Len(word)

Count(s, c) == Cardinality({i \in 1..Len(s) : s[i] = c})

RECURSIVE SumOver(_, _)
SumOver(S, f) ==
  IF S = {} THEN 0
  ELSE LET x == CHOOSE y \in S : TRUE IN f[x] + SumOver(S \ {x}, f)

quick_matches(x, word) ==
  LET cs == {word[i] : i \in 1..Len(word)}
  IN  SumOver(cs, [c \in cs |-> IF Count(x, c) < Count(word, c)
                                  THEN Count(x, c) ELSE Count(word, c)])

ratio_matches(x, word) == matches(x, word, 1, Len(x), 1, Len(word))

\* The possibilities get_close_matches keeps (lines 734-739 of difflib).
IsClose(x, word) ==
  /\ AtLeastCutoff(real_quick_matches(x, word), Len(x) + Len(word))
  /\ AtLeastCutoff(quick_matches(x, word), Len(x) + Len(word))
  /\ AtLeastCutoff(ratio_matches(x, word), Len(x) + Len(word))

\* (score, x) < (score', y) as heapq.nlargest compares the result tuples.
ScoredLess(x, y, word) ==
  LET mx == ratio_matches(x, word) * (Len(y) + Len(word))
      my == ratio_matches(y, word) * (Len(x) + Len(word))
  IN  mx < my \/ (mx = my /\ StrLess(x, y))

\* difflib.get_close_matches(word, possibilities, n=1, cutoff=0.65): the
\* best-scoring possibility, as a list of at most one string.
Best(close, word) ==
  IF close = {} THEN << >>
  ELSE <<CHOOSE x \in close : \A y \in close \ {x} : ScoredLess(y, x, word)>>

get_close_matches(word, possibilities) ==
  Best({x \in possibilities : IsClose(x, word)}, word)

(***************************************************************************)
(* SET_DESC, the matcher's worker, as the cell writes it performs.         *)
(***************************************************************************)

\* The statuses SET_DESC writes; NoStatus is the None of line 48.
NoStatus == None
MissingDocument ==
  Str(<<"M", "a", "y", " ", "b", "e", " ", "B", "r", "o", "k", "e", "n">>)
Unreadable == Str(<<"O", "C", "R">>)
Exact == Str(<<"E", "x", "a", "c", "t">>)
FuzzyMatch ==
  Str(<<"I", "n", "c", "l", "u", "d", "e", "s", " ", "o", "r", " ",
        "M", "i", "s", "s", "e", "d", " ",
        "S", "u", "f", "f", "i", "x", "e", "s">>)
NotFound == Str(<<"N", "o", "t", " ", "F", "o", "u", "n", "d">>)

\* len(values) <= 100 of line 60.
OcrLimit == 100

\* A text is too short below the limit only.
ShorterThanLimit(values) == Len(values) < OcrLimit

\* Line 60.
TooShort(values) == Len(values) <= OcrLimit

\* Line 72: the similars joined with '|', in the set's iteration order.
SimilarsCell(similars, seed) == Str(join(<<"|">>, SetOrder(similars, seed)))

\* Lines 75-82: the fuzzy tier.
Fuzzy(dlb_match) ==
  IF dlb_match # << >>
    THEN [writes |-> << <<"STATUS", FuzzyMatch>>,
                        <<"EQUIVALENT", Str(dlb_match[1])>> >>,
          raises |-> FALSE]
    ELSE [writes |-> << <<"STATUS", NotFound>> >>, raises |-> FALSE]

\* Lines 66-73: the exact tier.
Literal(equivalent, similars, seed) ==
  [writes |->
     << <<"STATUS", Exact>>, <<"EQUIVALENT", Str(equivalent)>> >>
     \o (IF similars # {}
           THEN << <<"SIMILARS", SimilarsCell(similars, seed)>> >>
           ELSE << >>),
   raises |-> FALSE]

Tiers(part, values, seed, exact) ==
  IF exact # 0
    THEN Literal(group0(part, values, exact), semi_regex(part, values), seed)
    ELSE Fuzzy(get_close_matches(part, re_split(values)))

\* Lines 64-82: what SET_DESC does with a part and a text long enough;
\* re.escape raises TypeError for a part that is no string.
match(part, values, seed) ==
  IF ~IsStr(part)
    THEN [writes |-> << >>, raises |-> TRUE]
    ELSE Tiers(part.v, values, seed, re_search(part.v, values))

(***************************************************************************)
(* The environment: what each URL answers, and the uploaded files.         *)
(***************************************************************************)

ScenarioA ==
  <<"A", "B", "C", "-", "1", "2", "3", "-", "X", " ", "O", "K", " ",
    "A", "B", "C", "-", "1", "2", "3", "-", "Y">>
WordSuffixes ==
  <<"x", "A", "B", "C", "-", "1", "2", "3", "y", " ",
    "a", "b", "c", "-", "1", "2", "3", "\n", "A", "B", "D", "-", "1", "2", "3">>

\* core, a space, and dots up to n characters in all.
Padded(core, n) == core \o <<" ">> \o [i \in 1..(n - Len(core) - 1) |-> "."]

UrlDatasheet == <<"d", "s">>
UrlScan == <<"s", "c">>
UrlWords == <<"w", "d">>
UrlTimeout == <<"t", "o">>
Url404 == <<"4", "0", "4">>
UrlDown == <<"d", "n">>
UrlCorrupt == <<"c", "r">>

Failed(how) == [fetch |-> how, extract |-> "none", text |-> << >>]
Served(text) == [fetch |-> "ok", extract |-> "ok", text |-> text]

\* requests.get and fitz.open for each URL: a datasheet one character over
\* the OCR limit, one of exactly the limit, a second datasheet, three kinds
\* of fetch failure and a payload that is no PDF.
Web ==
  (UrlDatasheet :> Served(Padded(ScenarioA, OcrLimit + 1)))
  @@ (UrlScan :> Served(Padded(ScenarioA, OcrLimit)))
  @@ (UrlWords :> Served(Padded(WordSuffixes, OcrLimit + 1)))
  @@ (UrlTimeout :> Failed("timeout"))
  @@ (Url404 :> Failed("http_error"))
  @@ (UrlDown :> Failed("transport_error"))
  @@ (UrlCorrupt :> [fetch |-> "ok", extract |-> "parse_failure", text |-> << >>])

\* What fetching the cell pdf meets.  A cell that is no string (an empty
\* spreadsheet cell) is no URL: requests raises MissingSchema.
Request(pdf) ==
  IF IsStr(pdf) /\ pdf.v \in DOMAIN Web THEN Web[pdf.v]
  ELSE Failed("transport_error")

PartABC123 == <<"A", "B", "C", "-", "1", "2", "3">>
PartLower == <<"a", "b", "c", "-", "1", "2", "3">>
PartABC124 == <<"A", "B", "C", "-", "1", "2", "4">>
PartXYZ999 == <<"X", "Y", "Z", "-", "9", "9", "9">>

\* The rows of a single-file upload: an MPN cell and a PDF cell.
Row(mpn, pdf) == [MPN |-> mpn, PDF |-> pdf]
Rows ==
  { Row(Str(PartABC123), Str(UrlDatasheet)),
    Row(Str(PartLower), Str(UrlWords)),
    Row(Str(PartABC124), Str(UrlDatasheet)),
    Row(Str(PartXYZ999), Str(UrlWords)),
    Row(Str(PartABC123), Str(UrlScan)),
    Row(Str(PartABC123), Str(UrlTimeout)),
    Row(Str(PartABC123), NaN),
    Row(Str(<< >>), Str(UrlDatasheet)),
    Row(NaN, Str(UrlDatasheet)) }

\* The cells of the PDF column of a separate PDF file.
PdfCells ==
  { Str(UrlDatasheet), Str(UrlScan), Str(UrlWords), Str(UrlTimeout),
    Str(Url404), Str(UrlDown), Str(UrlCorrupt), NaN }

\* An uploaded file has at most MaxRows rows.
MaxRows == 2

\* The batch size of line 30.
ChunkSize == 100

\* A table is a function from the names of its columns to their cells.
Table(header, rows) ==
  [c \in header |-> [i \in 1..Len(rows) |-> IF c \in DOMAIN rows[i]
                                              THEN rows[i][c] ELSE NaN]]

SeqsUpTo(S, n) == UNION {[1..m -> S] : m \in 1..n}

SingleHeaders == {{"MPN", "PDF"}, {"MPN", "PDF", "FOUND_PDF"}, {"MPN"}, {"PDF"}}
SingleFiles ==
  {Table(h, rows) : h \in SingleHeaders, rows \in SeqsUpTo(Rows, MaxRows)}

\* Separate files: an MPN file without a PDF column, and a PDF file.
MpnFiles ==
  {Table(h, <<[MPN |-> Str(PartABC123)]>>) : h \in {{"MPN"}, {"Part"}}}
\* One more URL than a batch holds, the seven URLs in turn.
LongList ==
  [i \in 1..(ChunkSize + 1) |->
     Str(<<UrlDatasheet, UrlTimeout, UrlCorrupt, UrlScan,
           Url404, UrlWords, UrlDown>>[(i % 7) + 1])]
PdfFiles ==
  {Table(h, [i \in 1..Len(l) |-> [PDF |-> l[i]]]) :
     h \in {{"PDF"}, {"URL"}}, l \in SeqsUpTo(PdfCells, MaxRows) \cup {LongList}}

NoFile == << >>

\* A ThreadPoolExecutor() runs at most MaxWorkers calls at a time.
MaxWorkers == 2

\* The pipeline is run at most MaxRuns times over the same upload.
MaxRuns == 2

HashSeeds == {0, 1}

\* What one call SET_DESC(index) does, given the two cells it reads (a
\* column the table does not have makes the read raise KeyError): the cell
\* writes in program order, and whether the call ends by raising.
SET_DESC(hasPart, part, hasUrl, pdf_url, pdf_data, seed) ==
  IF ~hasPart \/ ~hasUrl
    THEN [writes |-> << >>, raises |-> TRUE]
  ELSE IF pdf_url \notin DOMAIN pdf_data
    THEN [writes |-> << <<"STATUS", MissingDocument>> >>, raises |-> FALSE]
  ELSE LET values == pdf_data[pdf_url] IN
  IF TooShort(values)
    THEN [writes |-> << <<"STATUS", Unreadable>> >>, raises |-> FALSE]
  ELSE match(part, values, seed)

(***************************************************************************)
(* The state.                                                              *)
(***************************************************************************)

VARIABLES
  upload_type,  \* "single" or "separate": the selectbox of line 92
  mpn_file,     \* the uploaded file with the parts (both flows)
  pdf_file,     \* the uploaded file with the URLs (separate flow)
  hashseed,     \* the string hash seed of the interpreter of this run
  pc,           \* where main is
  data,         \* the table main reads and PN_Validation_New fills in
  pdfs,         \* the argument of GetPDFText
  gpc,          \* where GetPDFText is
  chunk,        \* the number of the chunk GetPDFText works on
  futs,         \* per position of pdfs, the state of its GetPDFResponse call
  ex,           \* the next result of the chunk the loop of line 36 reads
  pdfData,      \* the corpus under construction, then pdf_data
  fetched,      \* history: how often each position's fetch was started
  extracted,    \* history: the positions whose result line 36 has read
  ppc,          \* where PN_Validation_New is
  given,        \* history: the table PN_Validation_New was called with
  tasks,        \* per row, the state of its SET_DESC call
  plan,         \* per row, what its SET_DESC call found it has to do
  wpos,         \* per row, how many cell writes its SET_DESC call has made
  run,          \* the number of the current run of the pipeline
  returned      \* history: what each run's PN_Validation_New returned

vars ==
  <<upload_type, mpn_file, pdf_file, hashseed, pc, data, pdfs, gpc, chunk,
    futs, ex, pdfData, fetched, extracted, ppc, given, tasks, plan, wpos,
    run, returned>>

upload == <<upload_type, mpn_file, pdf_file, hashseed>>
fetchVars == <<pdfs, gpc, chunk, futs, ex, pdfData, fetched, extracted>>
matchVars == <<ppc, given, tasks, plan, wpos>>

NRows(table) ==
  IF DOMAIN table = {} THEN 0
  ELSE Len(table[CHOOSE c \in DOMAIN table : TRUE])

NoMap == [x \in {} |-> << >>]

Init ==
  /\ \/ upload_type = "single" /\ mpn_file \in SingleFiles /\ pdf_file = NoFile
     \/ upload_type = "separate" /\ mpn_file \in MpnFiles /\ pdf_file \in PdfFiles
  /\ hashseed \in HashSeeds
  /\ pc = "read"
  /\ data = NoFile
  /\ pdfs = << >>
  /\ gpc = "idle"
  /\ chunk = 0
  /\ futs = << >>
  /\ ex = 0
  /\ pdfData = NoMap
  /\ fetched = << >>
  /\ extracted = {}
  /\ ppc = "idle"
  /\ given = NoFile
  /\ tasks = << >>
  /\ plan = << >>
  /\ wpos = << >>
  /\ run = 1
  /\ returned = << >>

(***************************************************************************)
(* main, up to the call of GetPDFText.                                     *)
(***************************************************************************)

\* Lines 98-104 and 126: the file is read; with both columns GetPDFText is
\* called on the PDF column, without them the error is shown.
ReadSingle ==
  /\ pc = "read"
  /\ upload_type = "single"
  /\ data' = mpn_file
  /\ IF \A col \in {"MPN", "PDF"} : col \in DOMAIN mpn_file
       THEN pc' = "GetPDFText" /\ pdfs' = mpn_file.PDF
       ELSE pc' = "rejected" /\ pdfs' = pdfs
  /\ UNCHANGED <<upload, gpc, chunk, futs, ex, pdfData, fetched, extracted,
                 matchVars, run, returned>>

\* Lines 137-154: both files are read; a missing column ends main, else
\* GetPDFText is called on the PDF file's column.
ReadSeparate ==
  /\ pc = "read"
  /\ upload_type = "separate"
  /\ data' = mpn_file
  /\ IF "MPN" \notin DOMAIN mpn_file \/ "PDF" \notin DOMAIN pdf_file
       THEN pc' = "rejected" /\ pdfs' = pdfs
       ELSE pc' = "GetPDFText" /\ pdfs' = pdf_file.PDF
  /\ UNCHANGED <<upload, gpc, chunk, futs, ex, pdfData, fetched, extracted,
                 matchVars, run, returned>>

(***************************************************************************)
(* GetPDFText.                                                             *)
(***************************************************************************)

\* GetPDFResponse(pdf): the content of the response, or None after any
\* exception of requests.get or raise_for_status (lines 19-25).
GetPDFResponse(pdf) ==
  IF Request(pdf).fetch = "ok" THEN "bytes" ELSE "None"

\* Chunks that take one element more than the step between them.
chunks_overlapping(n) ==
  [k \in 1..((n + ChunkSize - 1) \div ChunkSize) |->
     [j \in 1..(IF n - (k - 1) * ChunkSize < ChunkSize + 1
                  THEN n - (k - 1) * ChunkSize ELSE ChunkSize + 1) |->
        (k - 1) * ChunkSize + j]]

\* Line 30: the chunks of a list of n elements, as the positions they hold.
chunks(n) ==
  [k \in 1..((n + ChunkSize - 1) \div ChunkSize) |->
     [j \in 1..(IF n - (k - 1) * ChunkSize < ChunkSize
                  THEN n - (k - 1) * ChunkSize ELSE ChunkSize) |->
        (k - 1) * ChunkSize + j]]

\* A document that does not open is stored with an empty text.
open_pdf_blank(pdf_data, pdf) ==
  [x \in DOMAIN pdf_data \cup {pdf} |->
     IF x = pdf THEN Request(pdf).text ELSE pdf_data[x]]

\* Lines 37-42: the text of a document that opens is stored under its URL, a
\* document that does not open is skipped.
open_pdf(pdf_data, pdf) ==
  IF Request(pdf).extract = "ok"
    THEN [x \in DOMAIN pdf_data \cup {pdf} |->
            IF x = pdf THEN Request(pdf).text ELSE pdf_data[x]]
    ELSE pdf_data

Running(st) == {p \in DOMAIN st : st[p] = "running"}

\* The next call a free worker thread of the pool takes: the first one still
\* queued (map submits the calls in the order of their arguments); 0 if no
\* call is queued or no worker is free.
NextQueued(st) ==
  IF \/ \A p \in DOMAIN st : st[p] # "queued"
     \/ Cardinality(Running(st)) >= MaxWorkers
    THEN 0
  ELSE CHOOSE p \in 1..Len(st) :
         st[p] = "queued" /\ \A q \in 1..(p - 1) : st[q] # "queued"

\* list(executor.map(...)) and the end of the with block of lines 33-34: every
\* call of the chunk has ended.
map_done(st, c) == \A j \in 1..Len(c) : st[c[j]] \notin {"queued", "running"}

\* Lines 29-30.
GetPDFText_Enter ==
  /\ pc = "GetPDFText"
  /\ gpc = "idle"
  /\ gpc' = "loop"
  /\ pdfData' = NoMap
  /\ chunk' = 0
  /\ ex' = 0
  /\ futs' = [p \in 1..Len(pdfs) |-> "new"]
  /\ fetched' = [p \in 1..Len(pdfs) |-> 0]
  /\ extracted' = {}
  /\ UNCHANGED <<upload, pc, data, pdfs, matchVars, run, returned>>

\* Lines 32-34: the next chunk's calls are submitted to a new pool.
NextChunk ==
  /\ pc = "GetPDFText"
  /\ gpc = "loop"
  /\ chunk < Len(chunks(Len(pdfs)))
  /\ chunk' = chunk + 1
  /\ LET c == chunks(Len(pdfs))[chunk + 1]
     IN  futs' = [p \in DOMAIN futs |->
                    IF \E j \in 1..Len(c) : c[j] = p THEN "queued" ELSE futs[p]]
  /\ gpc' = "map"
  /\ UNCHANGED <<upload, pc, data, pdfs, ex, pdfData, fetched, extracted,
                 matchVars, run, returned>>

\* A worker thread of the pool takes the next call.
FetchStart(p) ==
  /\ pc = "GetPDFText"
  /\ gpc = "map"
  /\ p = NextQueued(futs)
  /\ futs' = [futs EXCEPT ![p] = "running"]
  /\ fetched' = [fetched EXCEPT ![p] = @ + 1]
  /\ UNCHANGED <<upload, pc, data, pdfs, gpc, chunk, ex, pdfData, extracted,
                 matchVars, run, returned>>

\* A call of GetPDFResponse returns.  A free worker takes a queued call
\* before any request in flight is answered.
FetchDone(p) ==
  /\ pc = "GetPDFText"
  /\ futs[p] = "running"
  /\ NextQueued(futs) = 0
  /\ futs' = [futs EXCEPT ![p] = GetPDFResponse(pdfs[p])]
  /\ UNCHANGED <<upload, pc, data, pdfs, gpc, chunk, ex, pdfData, fetched,
                 extracted, matchVars, run, returned>>

\* Line 34 is left with the chunk's results; list() raises the exception of
\* a call that ended with one, and main's handler catches it (lines 127, 176).
Join ==
  /\ pc = "GetPDFText"
  /\ gpc = "map"
  /\ map_done(futs, chunks(Len(pdfs))[chunk])
  /\ IF \E p \in DOMAIN futs : futs[p] = "exception"
       THEN gpc' = "raised" /\ pc' = "error" /\ ex' = ex
       ELSE gpc' = "read" /\ pc' = pc /\ ex' = 1
  /\ UNCHANGED <<upload, data, pdfs, chunk, futs, pdfData, fetched,
                 extracted, matchVars, run, returned>>

\* Lines 36-42, one round of the loop over the chunk's results.
Extract ==
  /\ pc = "GetPDFText"
  /\ gpc = "read"
  /\ LET c == chunks(Len(pdfs))[chunk]
         p == c[ex]
     IN  /\ pdfData' = IF futs[p] = "bytes" THEN open_pdf(pdfData, pdfs[p])
                       ELSE pdfData
         /\ extracted' = extracted \cup {p}
         /\ IF ex = Len(c) THEN gpc' = "loop" /\ ex' = 0
            ELSE gpc' = "read" /\ ex' = ex + 1
  /\ UNCHANGED <<upload, pc, data, pdfs, chunk, futs, fetched, matchVars,
                 run, returned>>

\* Line 44, and main goes on to call PN_Validation_New (lines 105, 156).
GetPDFText_Return ==
  /\ pc = "GetPDFText"
  /\ gpc = "loop"
  /\ chunk = Len(chunks(Len(pdfs)))
  /\ gpc' = "returned"
  /\ pc' = "PN_Validation_New"
  /\ UNCHANGED <<upload, data, pdfs, chunk, futs, ex, pdfData, fetched,
                 extracted, matchVars, run, returned>>

(***************************************************************************)
(* PN_Validation_New.                                                      *)
(***************************************************************************)

VerdictColumns == {"STATUS", "EQUIVALENT", "SIMILARS"}

Cell(table, col, i) == IF col \in DOMAIN table THEN table[col][i] ELSE NaN

\* What the call SET_DESC(index) does on the table it is given.
Plan(table, pdf_data, seed, index) ==
  SET_DESC("MPN" \in DOMAIN table, Cell(table, "MPN", index),
           "PDF" \in DOMAIN table, Cell(table, "PDF", index),
           pdf_data, seed)

NoPlan == [writes |-> << >>, raises |-> FALSE]

\* A call that writes the row after those of the calls that have ended.
SlotByCompletion(index, st) ==
  1 + Cardinality({j \in DOMAIN st : st[j] \in {"done", "raised"}})

\* The row whose cells the call SET_DESC(index) writes: data[col][index].
Slot(index, st) == index

\* A pool that is left without waiting for its calls.
pool_exit_nowait(st) == TRUE

\* The end of the with block of lines 84-85: every call has ended.
pool_exit(st) == \A i \in DOMAIN st : st[i] \in {"done", "raised"}

\* Lines 48-50 and 84-85: the verdict columns are set to None and one call
\* of SET_DESC per row is submitted to the pool.
PN_Enter ==
  /\ pc = "PN_Validation_New"
  /\ ppc = "idle"
  /\ given' = data
  /\ data' = [c \in VerdictColumns |-> [i \in 1..NRows(data) |-> None]] @@ data
  /\ tasks' = [i \in 1..NRows(data) |-> "queued"]
  /\ plan' = [i \in 1..NRows(data) |-> NoPlan]
  /\ wpos' = [i \in 1..NRows(data) |-> 0]
  /\ ppc' = "map"
  /\ UNCHANGED <<upload, pc, fetchVars, run, returned>>

\* A worker thread takes the next call of SET_DESC; the call reads its two
\* cells and the corpus (lines 53-64, 69, 75) and so knows what it will write.
SET_DESC_Start(index) ==
  /\ pc = "PN_Validation_New"
  /\ ppc = "map"
  /\ index = NextQueued(tasks)
  /\ tasks' = [tasks EXCEPT ![index] = "running"]
  /\ plan' = [plan EXCEPT ![index] = Plan(data, pdfData, hashseed, index)]
  /\ UNCHANGED <<upload, pc, data, fetchVars, ppc, given, wpos, run,
                 returned>>

\* The call's next assignment to a cell (lines 56, 61, 66, 67, 72, 78, 79, 82).
SET_DESC_Write(index) ==
  /\ index \in DOMAIN tasks
  /\ tasks[index] = "running"
  /\ wpos[index] < Len(plan[index].writes)
  /\ LET w == plan[index].writes[wpos[index] + 1]
     IN  data' = [data EXCEPT ![w[1]][Slot(index, tasks)] = w[2]]
  /\ wpos' = [wpos EXCEPT ![index] = @ + 1]
  /\ UNCHANGED <<upload, pc, fetchVars, ppc, given, tasks, plan, run,
                 returned>>

\* The call returns, or ends with the exception it raised; the exception
\* stays in the future, which nothing reads (line 85 drops map's result).
SET_DESC_End(index) ==
  /\ index \in DOMAIN tasks
  /\ tasks[index] = "running"
  /\ wpos[index] = Len(plan[index].writes)
  /\ tasks' = [tasks EXCEPT ![index] =
                 IF plan[index].raises THEN "raised" ELSE "done"]
  /\ UNCHANGED <<upload, pc, data, fetchVars, ppc, given, plan, wpos, run,
                 returned>>

\* Line 87, and main goes on to its output.
PN_Return ==
  /\ pc = "PN_Validation_New"
  /\ ppc = "map"
  /\ pool_exit(tasks)
  /\ ppc' = "returned"
  /\ pc' = "output"
  /\ returned' = Append(returned, [pdf_data |-> pdfData, data |-> data,
                                   hashseed |-> hashseed])
  /\ UNCHANGED <<upload, data, fetchVars, given, tasks, plan, wpos, run>>

(***************************************************************************)
(* main, after PN_Validation_New.                                          *)
(***************************************************************************)

\* The columns the loops of lines 107 and 158 clean, in order.
OutputColumns(type) ==
  IF type = "single"
    THEN <<"MPN", "PDF", "STATUS", "EQUIVALENT", "SIMILARS", "FOUND_PDF">>
    ELSE <<"MPN", "STATUS", "EQUIVALENT", "SIMILARS", "FOUND_PDF">>

\* Lines 107-123 and 158-174: the columns are cleaned one after the other,
\* then the results are shown and written.  A column the table does not have
\* raises KeyError, which the handler of lines 127 and 176 reports.
Output ==
  /\ pc = "output"
  /\ LET cols == OutputColumns(upload_type)
         missing == {k \in 1..Len(cols) : cols[k] \notin DOMAIN data}
         stop == IF missing = {} THEN Len(cols) + 1 ELSE Min(missing)
         cleaned == {cols[k] : k \in 1..(stop - 1)}
     IN  /\ data' = [c \in DOMAIN data |->
                       IF c \in cleaned
                         THEN [i \in 1..NRows(data) |-> clean_string(data[c][i])]
                         ELSE data[c]]
         /\ pc' = IF missing = {} THEN "done" ELSE "error"
  /\ UNCHANGED <<upload, fetchVars, matchVars, run, returned>>

\* The pipeline is run again on the same table, which now carries the
\* verdict columns of the run before, in the same interpreter or a new one.
Rerun ==
  /\ pc \in {"done", "error"}
  /\ gpc = "returned"
  /\ run < MaxRuns
  /\ run' = run + 1
  /\ hashseed' \in HashSeeds
  /\ pc' = "GetPDFText"
  /\ gpc' = "idle"
  /\ ppc' = "idle"
  /\ UNCHANGED <<upload_type, mpn_file, pdf_file, data, pdfs, chunk, futs, ex,
                 pdfData, fetched, extracted, given, tasks, plan, wpos,
                 returned>>

Next ==
  \/ ReadSingle
  \/ ReadSeparate
  \/ GetPDFText_Enter
  \/ NextChunk
  \/ \E p \in {NextQueued(futs)} \cap DOMAIN futs : FetchStart(p)
  \/ \E p \in DOMAIN futs : FetchDone(p)
  \/ Join
  \/ Extract
  \/ GetPDFText_Return
  \/ PN_Enter
  \/ \E index \in DOMAIN tasks : SET_DESC_Start(index)
  \/ \E index \in DOMAIN tasks : SET_DESC_Write(index)
  \/ \E index \in DOMAIN tasks : SET_DESC_End(index)
  \/ PN_Return
  \/ Output
  \/ Rerun

Spec == Init /\ [][Next]_vars

(***************************************************************************)
(* Properties.                                                             *)
(***************************************************************************)

\* PN_Validation_New has just returned: data is the table it returned.
JustReturned == pc = "output"

\* Scoped mode: the table given to PN_Validation_New has both columns.
Scoped == {"MPN", "PDF"} \subseteq DOMAIN given

Records == 1..NRows(data)

FiveStatuses == {MissingDocument, Unreadable, Exact, FuzzyMatch, NotFound}

\* part occurs in text, letter case aside.
Occurs(part, text) == \E p \in 1..(Len(text) + 1) : MatchesAt(part, text, p)

\* The similarity 2M/T of tok and part is at least 0.65.
Similar(tok, part) ==
  AtLeastCutoff(ratio_matches(tok, part), Len(tok) + Len(part))

\* The pieces of a string between the '|' characters.
Pieces(str) ==
  LET seps == {i \in 1..Len(str) : str[i] = "|"}
      cuts == seps \cup {0, Len(str) + 1}
  IN  {SubSeq(str, c + 1, Min({d \in cuts : d > c}) - 1) :
         c \in cuts \ {Len(str) + 1}}

\* The status the tier order gives a part scoped to the reference ref.
FirstTier(part, ref, pdf_data) ==
  IF ref \notin DOMAIN pdf_data THEN MissingDocument
  ELSE IF Len(pdf_data[ref]) <= OcrLimit THEN Unreadable
  ELSE IF Occurs(part, pdf_data[ref]) THEN Exact
  ELSE IF \E tok \in re_split(pdf_data[ref]) : Similar(tok, part)
    THEN FuzzyMatch
  ELSE NotFound

\* C1: in scoped mode the status of every record with a string part is the
\* one of the first applicable tier, in the order missing document, text of
\* at most 100 characters, literal occurrence, similar token, not found; a
\* fuzzy verdict's equivalent is a token of the text similar to the part.
C1_TierOrder ==
  (JustReturned /\ Scoped) =>
    \A i \in Records :
      IsStr(given.MPN[i]) =>
        /\ data.STATUS[i] = FirstTier(given.MPN[i].v, given.PDF[i], pdfData)
        /\ data.STATUS[i] = FuzzyMatch =>
             /\ ~Occurs(given.MPN[i].v, pdfData[given.PDF[i]])
             /\ IsStr(data.EQUIVALENT[i])
             /\ data.EQUIVALENT[i].v \in re_split(pdfData[given.PDF[i]])
             /\ Similar(data.EQUIVALENT[i].v, given.MPN[i].v)

\* A table with a text of exactly 100 characters that holds the part, found
\* unreadable, and a part that is found by its similar token only.
C1_Witness ==
  /\ JustReturned
  /\ Scoped
  /\ \E i \in Records :
       /\ IsStr(given.MPN[i])
       /\ given.PDF[i] \in DOMAIN pdfData
       /\ Len(pdfData[given.PDF[i]]) = OcrLimit
       /\ Occurs(given.MPN[i].v, pdfData[given.PDF[i]])
       /\ data.STATUS[i] = Unreadable
  /\ \E i \in Records : data.STATUS[i] = FuzzyMatch

\* C2: after PN_Validation_New returns, a record with status Exact or
\* FuzzyMatch has a non-empty string as its equivalent, and a record with
\* status OCR or May be Broken has neither equivalent nor similars.
C2_VerdictInvariant ==
  JustReturned =>
    \A i \in Records :
      /\ data.STATUS[i] \in {Exact, FuzzyMatch} =>
           IsStr(data.EQUIVALENT[i]) /\ data.EQUIVALENT[i].v # << >>
      /\ data.STATUS[i] \in {Unreadable, MissingDocument} =>
           data.EQUIVALENT[i] = None /\ data.SIMILARS[i] = None

\* The cells of the verdict columns after the writes, from cells that are None.
Applied(writes) ==
  [c \in VerdictColumns |->
     LET ks == {k \in 1..Len(writes) : writes[k][1] = c}
     IN  IF ks = {} THEN None ELSE writes[Max(ks)][2]]

\* What SET_DESC does on record i of the table PN_Validation_New was given.
Own(i) == Plan(given, pdfData, hashseed, i)

\* C3: at every moment of the matcher's run the verdict cells of record i
\* hold what the call for record i has written so far and nothing else; when
\* PN_Validation_New returns every call has ended, the table has the records
\* it was given, in their order, and the verdict of record i is the one
\* computed from the part and the reference of record i.
C3_OwnSlot ==
  /\ (ppc = "map" \/ JustReturned) =>
       \A i \in Records : \A c \in VerdictColumns :
         data[c][i] = Applied(SubSeq(plan[i].writes, 1, wpos[i]))[c]
  /\ JustReturned =>
       /\ \A i \in DOMAIN tasks : tasks[i] \in {"done", "raised"}
       /\ NRows(data) = NRows(given)
       /\ \A c \in DOMAIN given \ VerdictColumns : data[c] = given[c]
       /\ \A i \in Records : \A c \in VerdictColumns :
            data[c][i] = Applied(Own(i).writes)[c]

\* Two records with different verdicts, the call of the second one ended
\* before the call of the first one.
C3_Witness ==
  /\ ppc = "map"
  /\ NRows(data) = 2
  /\ tasks[1] = "running"
  /\ tasks[2] = "done"
  /\ data.STATUS[2] \in FiveStatuses
  /\ plan[1].writes # << >>
  /\ plan[1].writes # plan[2].writes

\* C4: in scoped mode every record, whatever its cells are, ends with one of
\* the five statuses and its call raises no exception.
C4_ValueLevel ==
  (JustReturned /\ Scoped) =>
    \A i \in Records :
      data.STATUS[i] \in FiveStatuses /\ tasks[i] = "done"

\* The positions of pdfs that are fetched and extracted with success.
Readable == {p \in DOMAIN pdfs : /\ Request(pdfs[p]).fetch = "ok"
                                 /\ Request(pdfs[p]).extract = "ok"}

\* C5: GetPDFText never raises; the keys of the mapping it returns are the
\* references that were fetched and extracted with success, each with its
\* text, and every position of the input was processed.
C5_KeySet ==
  /\ gpc # "raised"
  /\ gpc = "returned" =>
       /\ DOMAIN pdfData = {pdfs[p] : p \in Readable}
       /\ \A ref \in DOMAIN pdfData : pdfData[ref] = Request(ref).text
       /\ extracted = DOMAIN pdfs

\* A list with a readable reference, one that times out and one whose
\* payload does not parse.
C5_Witness ==
  /\ gpc = "returned"
  /\ DOMAIN pdfData # {}
  /\ \E p \in DOMAIN pdfs : Request(pdfs[p]).fetch = "timeout"
  /\ \E p \in DOMAIN pdfs : Request(pdfs[p]).fetch = "http_error"
  /\ \E p \in DOMAIN pdfs : Request(pdfs[p]).extract = "parse_failure"

\* Two SIMILARS cells hold the same set of similars.
SameSimilars(a, b) ==
  IF IsStr(a) /\ IsStr(b) THEN Pieces(a.v) = Pieces(b.v) ELSE a = b

\* C6: two runs on the same inputs return the same corpus and, for every
\* record, the same status, the same equivalent and the same set of
\* similars, whatever the interleaving of the fetches and of the matcher's
\* calls, with repeated references, and when the second run starts from the
\* table that carries the verdicts of the first.
C6_Determinism ==
  Len(returned) = 2 =>
    /\ returned[1].pdf_data = returned[2].pdf_data
    /\ NRows(returned[1].data) = NRows(returned[2].data)
    /\ \A i \in 1..NRows(returned[1].data) :
         /\ returned[1].data.STATUS[i] = returned[2].data.STATUS[i]
         /\ returned[1].data.EQUIVALENT[i] = returned[2].data.EQUIVALENT[i]
         /\ SameSimilars(returned[1].data.SIMILARS[i],
                         returned[2].data.SIMILARS[i])

\* Two runs over a table that names the same document twice, with different
\* verdicts for its two records, one of them with two similars.
C6_Witness ==
  /\ Len(returned) = 2
  /\ returned[1].hashseed # returned[2].hashseed
  /\ NRows(returned[2].data) = 2
  /\ "PDF" \in DOMAIN given
  /\ given.PDF[1] = given.PDF[2]
  /\ returned[2].data.STATUS[1] # returned[2].data.STATUS[2]
  /\ \E i \in 1..2 :
       /\ IsStr(returned[2].data.SIMILARS[i])
       /\ Cardinality(Pieces(returned[2].data.SIMILARS[i].v)) = 2

\* str is an occurrence of part with word characters before and after it.
WordExtension(str, part) ==
  \E p \in 1..(Len(str) + 1) :
    /\ MatchesAt(part, str, p)
    /\ \A k \in 1..(p - 1) : IsWord[str[k]]
    /\ \A k \in (p + Len(part))..Len(str) : IsWord[str[k]]

\* Record i has the part ABC-123 and the document of Scenario A.
IsScenarioA(i) ==
  given.MPN[i] = Str(PartABC123) /\ given.PDF[i] = Str(UrlDatasheet)

C8_Unscoped ==
  (JustReturned /\ upload_type = "separate") =>
    \A i \in Records :
      /\ data.STATUS[i] \in FiveStatuses
      /\ (IsStr(given.MPN[i])
          /\ \E ref \in DOMAIN pdfData :
               /\ Len(pdfData[ref]) > OcrLimit
               /\ Occurs(given.MPN[i].v, pdfData[ref])) =>
           data.STATUS[i] = Exact

\* C9: a run over a table with the columns MPN and PDF does not end in the
\* global error, and a table without them is rejected before any fetch or
\* matcher call is started.
C9_NoGlobalError ==
  /\ (upload_type = "single" /\ {"MPN", "PDF"} \subseteq DOMAIN mpn_file) =>
       pc # "error"
  /\ pc = "rejected" => futs = << >> /\ tasks = << >>

\* The batch a position of the input belongs to.
ChunkOf(p) == ((p - 1) \div ChunkSize) + 1

Busy == gpc \in {"loop", "map", "read", "returned"}

\* C10: the calls submitted or running all belong to the current batch, a
\* position is fetched only once its batch is the current one and every
\* position of the batches before has been fetched and extracted, no
\* position is fetched twice, and GetPDFText returns with every position
\* fetched once and extracted.
C10_Batches ==
  Busy =>
    /\ \A p \in DOMAIN futs :
         /\ fetched[p] <= 1
         /\ futs[p] \in {"queued", "running"} => ChunkOf(p) = chunk
         /\ futs[p] # "new" => ChunkOf(p) <= chunk
         /\ ChunkOf(p) < chunk =>
              /\ fetched[p] = 1
              /\ futs[p] \in {"bytes", "None"}
              /\ p \in extracted
         /\ p \in extracted => futs[p] \in {"bytes", "None"}
    /\ gpc = "returned" =>
         \A p \in DOMAIN pdfs : fetched[p] = 1 /\ p \in extracted

\* A fetch of the second batch of a list of more than 100 references is
\* running.
C10_Witness ==
  /\ gpc = "map"
  /\ Len(pdfs) > ChunkSize
  /\ \E p \in DOMAIN futs : futs[p] = "running" /\ ChunkOf(p) = 2

=============================================================================
